---- MODULE Spec2Model ----
(***************************************************************************)
(* Model of the rusty-jsyc bytecode compiler: the register/scope allocator *)
(* (scope.rs), the instruction selector (instruction_set.rs) and the AST   *)
(* lowering engine (compiler.rs).                                          *)
(***************************************************************************)
EXTENDS Integers, Sequences, FiniteSets, TLC

(***************************************************************************)
(* Bounds of the model.                                                    *)
(***************************************************************************)
\* Number of registers in the bank: stands for Register::max_value() (scope.rs:51),
\* scaled down so that the free queue wraps around within a bounded run.
MaxReg == 6
\* Deepest scope stack enter_new_scope is driven to.
MaxDepth == 3
\* Longest free-register queue leave_current_scope is driven to.
MaxFree == 7
\* Number of allocator calls in one run of the allocator specification.
MaxCalls == 9

\* Identifiers declared by the allocator calls.
DeclNames == {"x", "b"}

(***************************************************************************)
(* Result<V, CompilerError>                                                *)
(***************************************************************************)
Ok(v) == [ok |-> TRUE, val |-> v, err |-> "", panic |-> FALSE]
Err(e) == [ok |-> FALSE, val |-> 0, err |-> e, panic |-> FALSE]

ErrAllRegs == "All registers are in use. Free up some registers by using less declarations"
ErrNoDecl(var_name) == "The declaration '" \o var_name \o "' does not exist"
ErrNoScope == "No current scope"
ErrNoScopeMut == "No current (mut) scope"
ErrLeave == "Cannot leave inextsiting scope"

(***************************************************************************)
(* scope.rs: Declaration, Scope, Scopes                                    *)
(***************************************************************************)
Declaration(reg) == [register |-> reg]

\* HashMap::new()
EmptyDecls == [n \in {} |-> Declaration(0)]

\* HashMap::insert: a later insertion under the same key replaces the entry.
Insert(decls, name, d) ==
    [n \in (DOMAIN decls) \cup {name} |-> IF n = name THEN d ELSE decls[n]]

\* Scope::new
ScopeNew == [decls |-> EmptyDecls, unnamed_reserved_registers |-> <<>>]

\* The iteration orders HashMap::iter can produce over a map: std's HashMap
\* hashes with a per-instance random state, so any order of the keys can come out.
IterOrders(decls) ==
    LET n == Cardinality(DOMAIN decls)
    IN  {o \in [1..n -> DOMAIN decls] : \A i, j \in 1..n : i # j => o[i] # o[j]}

\* The bug "only the temporaries of a frame are handed back".
used_registers_temporaries_only(scope, order) == scope.unnamed_reserved_registers

\* Scope::used_registers: the temporaries, then the register of every declaration
\* in the map's iteration order.
used_registers(scope, order) ==
    scope.unnamed_reserved_registers \o
        [i \in 1..Len(order) |-> scope.decls[order[i]].register]

\* Scopes::new
ScopesNew ==
    [scopes |-> <<ScopeNew>>,
     unused_register |-> [i \in 1..MaxReg |-> i - 1]]

\* The bug "the front of the queue is read but not removed".
get_unused_register_peek(self) ==
    IF self.unused_register = <<>>
    THEN [res |-> Err(ErrAllRegs), self |-> self]
    ELSE [res |-> Ok(Head(self.unused_register)), self |-> self]

\* The bug "an empty queue issues register 0 again instead of failing".
get_unused_register_reissue(self) ==
    IF self.unused_register = <<>>
    THEN [res |-> Ok(0), self |-> self]
    ELSE [res |-> Ok(Head(self.unused_register)),
          self |-> [self EXCEPT !.unused_register = Tail(@)]]

\* Scopes::get_unused_register
get_unused_register(self) ==
    IF self.unused_register = <<>>
    THEN [res |-> Err(ErrAllRegs), self |-> self]
    ELSE [res |-> Ok(Head(self.unused_register)),
          self |-> [self EXCEPT !.unused_register = Tail(@)]]

\* Scopes::current_scope
current_scope(self) ==
    IF self.scopes = <<>> THEN Err(ErrNoScope)
    ELSE [Ok(0) EXCEPT !.val = self.scopes[Len(self.scopes)]]

\* The bug "a declaration is written through to every frame on the stack".
add_decl_all_frames(self, decl) ==
    LET g == get_unused_register(self)
    IN  IF ~g.res.ok THEN g
        ELSE IF g.self.scopes = <<>> THEN [res |-> Err(ErrNoScopeMut), self |-> g.self]
        ELSE [res |-> g.res,
              self |-> [g.self EXCEPT !.scopes =
                          [i \in 1..Len(@) |->
                              [@[i] EXCEPT !.decls = Insert(@, decl, Declaration(g.res.val))]]]]

\* Scopes::add_decl: the register is taken before the current scope is looked up.
add_decl(self, decl) ==
    LET g == get_unused_register(self)
    IN  IF ~g.res.ok THEN g
        ELSE IF g.self.scopes = <<>> THEN [res |-> Err(ErrNoScopeMut), self |-> g.self]
        ELSE [res |-> g.res,
              self |-> [g.self EXCEPT !.scopes[Len(g.self.scopes)].decls =
                                          Insert(@, decl, Declaration(g.res.val))]]

\* Scopes::reserve_register
reserve_register(self) == get_unused_register(self)

\* The bug "the throwaway register is read at the back of the queue".
get_throwaway_register_back(self) ==
    IF self.unused_register = <<>> THEN Err(ErrAllRegs)
    ELSE Ok(self.unused_register[Len(self.unused_register)])

\* Scopes::get_throwaway_register
get_throwaway_register(self) ==
    IF self.unused_register = <<>> THEN Err(ErrAllRegs)
    ELSE Ok(Head(self.unused_register))

\* Scopes::get_var
get_var(self, var_name) ==
    LET cur == current_scope(self)
    IN  IF ~cur.ok THEN Err(cur.err)
        ELSE IF var_name \in DOMAIN cur.val.decls
             THEN [Ok(0) EXCEPT !.val = cur.val.decls[var_name]]
             ELSE Err(ErrNoDecl(var_name))

\* The bug "entering a scope pushes no frame".
enter_new_scope_no_push(self) ==
    IF self.scopes = <<>> THEN [res |-> Err(ErrNoScope), self |-> self]
    ELSE [res |-> Ok(0), self |-> self]

\* Scopes::enter_new_scope
enter_new_scope(self) ==
    LET cur == current_scope(self)
    IN  IF ~cur.ok THEN [res |-> Err(cur.err), self |-> self]
        ELSE [res |-> Ok(0),
              self |-> [self EXCEPT !.scopes =
                          Append(@, [decls |-> cur.val.decls,
                                     unnamed_reserved_registers |-> <<>>])]]

\* The bug "leaving with no frame on the stack is accepted as a no-op".
leave_current_scope_lenient(self, order) ==
    IF self.scopes = <<>> THEN [res |-> Ok(0), self |-> self]
    ELSE LET scope == self.scopes[Len(self.scopes)]
         IN  [res |-> Ok(0),
              self |-> [scopes |-> SubSeq(self.scopes, 1, Len(self.scopes) - 1),
                        unused_register |->
                            self.unused_register \o used_registers(scope, order)]]

\* Scopes::leave_current_scope; order is the iteration order of the popped
\* frame's declaration map.
leave_current_scope(self, order) ==
    IF self.scopes = <<>> THEN [res |-> Err(ErrLeave), self |-> self]
    ELSE LET scope == self.scopes[Len(self.scopes)]
         IN  [res |-> Ok(0),
              self |-> [scopes |-> SubSeq(self.scopes, 1, Len(self.scopes) - 1),
                        unused_register |->
                            self.unused_register \o used_registers(scope, order)]]

\* The iteration orders of the frame leave_current_scope would pop.
TopOrders(self) ==
    IF self.scopes = <<>> THEN {<<>>}
    ELSE IterOrders(self.scopes[Len(self.scopes)].decls)

(***************************************************************************)
(* The IR: Bytecode, Command, Operand (bytecode.rs)                        *)
(***************************************************************************)
Panic(e) == [ok |-> FALSE, val |-> 0, err |-> e, panic |-> TRUE]

are_unsupported(what) == what \o " are not supported"
is_unsupported(what) == what \o " is not supported"

None == [some |-> FALSE, val |-> 0]
Some(v) == [some |-> TRUE, val |-> v]

Operand(type, num, regs, str) == [type |-> type, num |-> num, regs |-> regs, str |-> str]
OperandRegister(reg) == Operand("Register", reg, <<>>, "")
OperandRegistersArray(regs) == Operand("RegistersArray", 0, regs, "")
OperandString(str) == Operand("String", 0, <<>>, str)
OperandShortNum(num) == Operand("ShortNum", num, <<>>, "")
OperandLongNum(num) == Operand("LongNum", num, <<>>, "")

Command(instruction, operands) == [instruction |-> instruction, operands |-> operands]

\* Bytecode::new, Bytecode::add, Bytecode::combine, Bytecode::last_op_is_return
BytecodeNew == <<>>
add(bytecode, command) == Append(bytecode, command)
combine(bytecode, other) == bytecode \o other
last_op_is_return(bytecode) ==
    /\ bytecode # <<>>
    /\ bytecode[Len(bytecode)].instruction = "ReturnBytecodeFunc"

\* Largest value of a short-integer operand.
MaxShortNum == 255

\* Number literals of the programs, by their source text.
NumberValue(raw) ==
    CASE raw = "0" -> 0
      [] raw = "1" -> 1
      [] raw = "70000" -> 70000

\* Operand::from_literal
from_literal(lit) ==
    CASE lit.kind = "String" -> Ok(OperandString(lit.raw))
      [] lit.kind = "Number" ->
            IF NumberValue(lit.raw) <= MaxShortNum
            THEN Ok(OperandShortNum(NumberValue(lit.raw)))
            ELSE Ok(OperandLongNum(NumberValue(lit.raw)))
      [] OTHER -> Err(is_unsupported("Literal"))

\* Operand::get_assign_instr_type, the mapping of InstructionSet::load_op
get_assign_instr_type(right) ==
    CASE right.type = "String" -> "LoadString"
      [] right.type = "FloatNum" -> "LoadFloatNum"
      [] right.type = "LongNum" -> "LoadLongNum"
      [] right.type = "ShortNum" -> "LoadNum"
      [] right.type = "Register" -> "Copy"

(***************************************************************************)
(* instruction_set.rs                                                      *)
(***************************************************************************)
\* CommonLiteral::idx
idx(common_lit) ==
    CASE common_lit = "Num0" -> 0
      [] common_lit = "Num1" -> 1
      [] common_lit = "Void0" -> 2

\* The size of the enum CommonLiteral.
enum_size == 3

\* reserve_register_back: a register is taken from the back of the free queue.
reserve_register_back(self) ==
    IF self.unused_register = <<>>
    THEN [res |-> Err(ErrAllRegs), self |-> self]
    ELSE [res |-> Ok(self.unused_register[Len(self.unused_register)]),
          self |-> [self EXCEPT !.unused_register = SubSeq(@, 1, Len(@) - 1)]]

\* The bug "the constants' registers are read off the pool but stay in it".
CommonLiteralRegsNew_unreserved(self, regs) ==
    [res |-> Ok([regs |-> [i \in 1..enum_size |->
                              self.unused_register[Len(self.unused_register) + 1 - i]]]),
     self |-> self]

\* CommonLiteralRegs::new: enum_size registers are reserved, one after the other.
RECURSIVE CommonLiteralRegsNew(_, _)
CommonLiteralRegsNew(self, regs) ==
    IF Len(regs) = enum_size THEN [res |-> Ok([regs |-> regs]), self |-> self]
    ELSE LET r == reserve_register_back(self)
         IN  IF ~r.res.ok THEN r
             ELSE CommonLiteralRegsNew(r.self, Append(regs, r.res.val))

\* CommonLiteralRegs::reg, InstructionSet::common_literal_reg
common_literal_reg(isa, common_lit) == isa.common_regs.regs[idx(common_lit) + 1]

\* InstructionSet::assignment_op
assignment_op(isa, op, rd, rs) ==
    LET cmd(instr) == Ok(Command(instr, <<OperandRegister(rd), OperandRegister(rd),
                                          OperandRegister(rs)>>))
    IN  CASE op = "Equal" -> cmd("Copy")
          [] op = "PlusEqual" -> cmd("Add")
          [] op = "MinusEqual" -> cmd("Minus")
          [] op = "TimesEqual" -> cmd("Mul")
          [] op = "DivEqual" -> cmd("Div")
          [] OTHER -> Panic("not implemented: The correct branch for the assignment op ist not yet implemented")

\* The bug "the update writes to the cached constant instead of the operand".
update_op_swapped(isa, op, rd) ==
    Command(IF op = "Increment" THEN "Add" ELSE "Minus",
            <<OperandRegister(common_literal_reg(isa, "Num1")),
              OperandRegister(rd),
              OperandRegister(rd)>>)

\* InstructionSet::update_op
update_op(isa, op, rd) ==
    Command(IF op = "Increment" THEN "Add" ELSE "Minus",
            <<OperandRegister(rd),
              OperandRegister(rd),
              OperandRegister(common_literal_reg(isa, "Num1"))>>)

\* The bug "an unmapped unary operator aborts like an unmapped assignment".
unary_op_unimplemented(isa, op, rd, rs) ==
    CASE op = "Minus" ->
            Ok(Command("Minus", <<OperandRegister(rd),
                                  OperandRegister(common_literal_reg(isa, "Num0")),
                                  OperandRegister(rs)>>))
      [] op = "Plus" ->
            Ok(Command("Add", <<OperandRegister(rd),
                                OperandRegister(common_literal_reg(isa, "Num0")),
                                OperandRegister(rs)>>))
      [] OTHER -> Panic("not implemented")

\* InstructionSet::unary_op
unary_op(isa, op, rd, rs) ==
    CASE op = "Minus" ->
            Ok(Command("Minus", <<OperandRegister(rd),
                                  OperandRegister(common_literal_reg(isa, "Num0")),
                                  OperandRegister(rs)>>))
      [] op = "Plus" ->
            Ok(Command("Add", <<OperandRegister(rd),
                                OperandRegister(common_literal_reg(isa, "Num0")),
                                OperandRegister(rs)>>))
      [] op = "Void" -> Err("The 'void' must be handled on compiler-level")
      [] OTHER -> Err(is_unsupported("Unary operation"))

\* InstructionSet::binary_op
binary_op(isa, op, rd, r0, r1) ==
    LET cmd(instr) == Ok(Command(instr, <<OperandRegister(rd), OperandRegister(r0),
                                          OperandRegister(r1)>>))
    IN  CASE op = "Equal" -> cmd("CompEqual")
          [] op = "NotEqual" -> cmd("CompNotEqual")
          [] op = "StrictEqual" -> cmd("CompStrictEqual")
          [] op = "StrictNotEqual" -> cmd("CompStrictNotEqual")
          [] op = "LessThan" -> cmd("CompLessThan")
          [] op = "GreaterThan" -> cmd("CompGreaterThan")
          [] op = "LessThanEqual" -> cmd("CompLessThanEqual")
          [] op = "GreaterThanEqual" -> cmd("CompGreaterThanEqual")
          [] op = "Plus" -> cmd("Add")
          [] op = "Minus" -> cmd("Minus")
          [] op = "Times" -> cmd("Mul")
          [] op = "Over" -> cmd("Div")
          [] OTHER -> Err(is_unsupported("Binary operation"))

(***************************************************************************)
(* compiler.rs: expressions.  self is the BytecodeCompiler; every operator *)
(* returns its result together with the compiler it leaves behind.         *)
(***************************************************************************)
\* The bug "source and destination are exchanged".
compile_operand_assignment_swapped(left, right) ==
    Ok(add(BytecodeNew, Command(get_assign_instr_type(right), <<right, OperandRegister(left)>>)))

\* BytecodeCompiler::compile_operand_assignment
compile_operand_assignment(left, right) ==
    Ok(add(BytecodeNew, Command(get_assign_instr_type(right), <<OperandRegister(left), right>>)))

\* The `?` operator: an error is returned at once, a success goes on.
Try(r, then(_)) == IF ~r.res.ok THEN r ELSE then(r)

\* The result of a call on self.scopes, as a result of the compiler.
with_scopes(self, r) == [res |-> r.res, self |-> [self EXCEPT !.scopes = r.self]]

RECURSIVE compile_expr(_, _, _)
RECURSIVE maybe_compile_expr(_, _, _)
RECURSIVE compile_call_arguments(_, _, _, _)

\* BytecodeCompiler::maybe_compile_expr
maybe_compile_expr(self, expr, target_reg) ==
    IF expr.type = "Ident" /\ get_var(self.scopes, expr.name).ok
    THEN [res |-> Ok([bytecode |-> BytecodeNew,
                      reg |-> get_var(self.scopes, expr.name).val.register]),
          self |-> self]
    ELSE Try(IF target_reg.some THEN [res |-> Ok(target_reg.val), self |-> self]
             ELSE with_scopes(self, reserve_register(self.scopes)),
             LAMBDA t :
                 Try(compile_expr(t.self, expr, t.res.val),
                     LAMBDA c : [res |-> Ok([bytecode |-> c.res.val, reg |-> t.res.val]),
                                 self |-> c.self]))

\* The bug "the argument registers are collected in reverse".
compile_call_arguments_reversed(self, arguments, bytecode, arg_regs) ==
    IF arguments = <<>>
    THEN [res |-> Ok([bytecode |-> bytecode, arg_regs |-> arg_regs]), self |-> self]
    ELSE Try(maybe_compile_expr(self, Head(arguments), None),
             LAMBDA a :
                 compile_call_arguments(a.self, Tail(arguments),
                                        combine(bytecode, a.res.val.bytecode),
                                        <<a.res.val.reg>> \o arg_regs))

\* The closure of compile_call_expr over call.arguments, collected left to right:
\* the first failing argument ends the iteration.
compile_call_arguments(self, arguments, bytecode, arg_regs) ==
    IF arguments = <<>>
    THEN [res |-> Ok([bytecode |-> bytecode, arg_regs |-> arg_regs]), self |-> self]
    ELSE Try(maybe_compile_expr(self, Head(arguments), None),
             LAMBDA a :
                 compile_call_arguments(a.self, Tail(arguments),
                                        combine(bytecode, a.res.val.bytecode),
                                        Append(arg_regs, a.res.val.reg)))

\* BytecodeCompiler::compile_call_expr
compile_call_expr(self, call, target_reg) ==
    Try(maybe_compile_expr(self, call.callee, Some(target_reg)),
        LAMBDA callee :
            Try(compile_call_arguments(callee.self, call.arguments, BytecodeNew, <<>>),
                LAMBDA args :
                    [res |-> Ok(add(combine(args.res.val.bytecode, callee.res.val.bytecode),
                                    Command("CallFunc",
                                            <<OperandRegister(target_reg),
                                              OperandRegister(callee.res.val.reg),
                                              OperandRegistersArray(args.res.val.arg_regs)>>))),
                     self |-> args.self]))

\* A property named by an identifier is the string of its name.
property_key(property) ==
    IF property.type = "Ident"
    THEN [type |-> "Literal", lit |-> [kind |-> "String", raw |-> property.name]]
    ELSE property

\* BytecodeCompiler::compile_member_expr
compile_member_expr(self, member, target_reg) ==
    Try(maybe_compile_expr(self, member.object, None),
        LAMBDA obj :
            Try(maybe_compile_expr(obj.self, property_key(member.property), None),
                LAMBDA prop :
                    [res |-> Ok(add(combine(obj.res.val.bytecode, prop.res.val.bytecode),
                                    Command("PropAccess",
                                            <<OperandRegister(target_reg),
                                              OperandRegister(obj.res.val.reg),
                                              OperandRegister(prop.res.val.reg)>>))),
                     self |-> prop.self]))

\* The command of an operator selection, added to the bytecode lowered so far.
with_command(self, bytecode, cmd) ==
    IF ~cmd.ok THEN [res |-> cmd, self |-> self]
    ELSE [res |-> Ok(add(bytecode, cmd.val)), self |-> self]

\* BytecodeCompiler::compile_assignment_expr
compile_assignment_expr(self, assign, target_reg) ==
    IF assign.left.type = "Pat"
    THEN [res |-> Err(are_unsupported("Patterns in assignments")), self |-> self]
    ELSE Try(maybe_compile_expr(self, assign.left.expr, None),
             LAMBDA left :
                 IF assign.operator = "Equal"
                 THEN Try(compile_expr(left.self, assign.right, left.res.val.reg),
                          LAMBDA right :
                              [res |-> Ok(combine(left.res.val.bytecode, right.res.val)),
                               self |-> right.self])
                 ELSE Try(maybe_compile_expr(left.self, assign.right, None),
                          LAMBDA right :
                              with_command(right.self,
                                           combine(left.res.val.bytecode,
                                                   right.res.val.bytecode),
                                           assignment_op(self.isa, assign.operator,
                                                         left.res.val.reg,
                                                         right.res.val.reg))))

\* BytecodeCompiler::compile_update_expr
compile_update_expr(self, update, target_reg) ==
    IF update.prefix
    THEN Try(maybe_compile_expr(self, update.argument, None),
             LAMBDA arg :
                 [res |-> Ok(add(arg.res.val.bytecode,
                                 update_op(self.isa, update.operator, arg.res.val.reg))),
                  self |-> arg.self])
    ELSE [res |-> Err(are_unsupported("suffix update expressions")), self |-> self]

\* BytecodeCompiler::compile_unary_expr
compile_unary_expr(self, unary, target_reg) ==
    IF unary.prefix
    THEN Try(maybe_compile_expr(self, unary.argument, None),
             LAMBDA arg :
                 with_command(arg.self, arg.res.val.bytecode,
                              unary_op(self.isa, unary.operator, target_reg,
                                       arg.res.val.reg)))
    ELSE [res |-> Err(are_unsupported("suffix unary expressions")), self |-> self]

\* BytecodeCompiler::compile_expr
compile_expr(self, expr, target_reg) ==
    LET fail(e) == [res |-> Err(e), self |-> self]
    IN  CASE expr.type = "ArrowFunction" -> fail(are_unsupported("Arrow functions"))
          [] expr.type = "ArrowParamPlaceHolder" ->
                fail(are_unsupported("Arrow parameter placeholder"))
          [] expr.type = "Assignment" -> compile_assignment_expr(self, expr, target_reg)
          [] expr.type = "Await" -> fail(are_unsupported("'await' expressions"))
          [] expr.type = "Class" -> fail(are_unsupported("'class' expressions"))
          [] expr.type = "Call" -> compile_call_expr(self, expr, target_reg)
          [] expr.type = "Function" -> fail(are_unsupported("function expressions"))
          [] expr.type = "Ident" ->
                LET var == get_var(self.scopes, expr.name)
                IN  IF ~var.ok THEN fail(var.err)
                    ELSE [res |-> compile_operand_assignment(
                                      target_reg, OperandRegister(var.val.register)),
                          self |-> self]
          [] expr.type = "Literal" ->
                LET operand == from_literal(expr.lit)
                IN  IF ~operand.ok THEN fail(operand.err)
                    ELSE [res |-> compile_operand_assignment(target_reg, operand.val),
                          self |-> self]
          [] expr.type = "Member" -> compile_member_expr(self, expr, target_reg)
          [] expr.type = "MetaProperty" -> fail(are_unsupported("meta properties"))
          [] expr.type = "Spread" -> fail(are_unsupported("spread expressions"))
          [] expr.type = "Super" -> fail(are_unsupported("'super' expressions"))
          [] expr.type = "TaggedTemplate" ->
                fail(are_unsupported("tagged template expressions"))
          [] expr.type = "Update" -> compile_update_expr(self, expr, target_reg)
          [] expr.type = "Unary" -> compile_unary_expr(self, expr, target_reg)
          [] expr.type = "Yield" -> fail(are_unsupported("'yield' expressions"))
          [] OTHER -> fail(is_unsupported("Expression type"))

(***************************************************************************)
(* compiler.rs: declarations, statements, program parts                    *)
(***************************************************************************)
RECURSIVE compile_var_declarators(_, _, _)

\* The closure of compile_var_decl over the declarators, collected in order: the
\* first failing declarator ends the iteration, what was allocated stays allocated.
compile_var_declarators(self, decls, bytecode) ==
    IF decls = <<>> THEN [res |-> Ok(bytecode), self |-> self]
    ELSE LET decl == Head(decls)
             fail(e) == [res |-> Err(e), self |-> self]
         IN  CASE decl.id.type = "Identifier" ->
                    Try(with_scopes(self, add_decl(self.scopes, decl.id.name)),
                        LAMBDA reg :
                            IF decl.init.some
                            THEN Try(compile_expr(reg.self, decl.init.val, reg.res.val),
                                     LAMBDA init :
                                         compile_var_declarators(
                                             init.self, Tail(decls),
                                             combine(bytecode, init.res.val)))
                            ELSE compile_var_declarators(reg.self, Tail(decls), bytecode))
               [] decl.id.type = "Array" -> fail("'Array Patterns' are not supported")
               [] decl.id.type = "Object" -> fail("'Object Patterns' are not supported")
               [] decl.id.type = "RestElement" -> fail("'Rest Elements' are not supported")
               [] decl.id.type = "Assignment" ->
                    fail("'Assignment Patterns' are not supported")

\* BytecodeCompiler::compile_var_decl: let and const are treated as var.
compile_var_decl(self, kind, decls) == compile_var_declarators(self, decls, BytecodeNew)

\* BytecodeCompiler::compile_return_stmt
compile_return_stmt(self, ret) ==
    LET return(bytecode, ret_regs) ==
            Ok(add(bytecode, Command("ReturnBytecodeFunc", <<OperandRegistersArray(ret_regs)>>)))
    IN  IF ret.some
        THEN Try(maybe_compile_expr(self, ret.val, None),
                 LAMBDA r : [res |-> return(r.res.val.bytecode, <<r.res.val.reg>>),
                             self |-> r.self])
        ELSE [res |-> return(BytecodeNew, <<>>), self |-> self]

\* BytecodeCompiler::compile_stmt (a Block is walked item by item, see BlockEnter)
compile_stmt(self, stmt) ==
    LET fail(e) == [res |-> Err(e), self |-> self]
    IN  CASE stmt.type = "Expr" ->
                LET throwaway == get_throwaway_register(self.scopes)
                IN  IF ~throwaway.ok THEN [res |-> throwaway, self |-> self]
                    ELSE compile_expr(self, stmt.expr, throwaway.val)
          [] stmt.type = "Empty" -> [res |-> Ok(BytecodeNew), self |-> self]
          [] stmt.type = "Debugger" -> fail(are_unsupported("Debugger statments"))
          [] stmt.type = "With" -> fail(are_unsupported("'with' statments"))
          [] stmt.type = "Return" -> compile_return_stmt(self, stmt.ret)
          [] stmt.type = "Throw" -> fail(are_unsupported("'throw' statments"))
          [] stmt.type = "Try" -> fail(are_unsupported("'try' statments"))
          [] stmt.type = "ForIn" -> fail(are_unsupported("for-in statments"))
          [] stmt.type = "ForOf" -> fail(are_unsupported("for-of statments"))
          [] stmt.type = "Var" -> compile_var_decl(self, "Var", stmt.decls)
          [] OTHER -> fail(is_unsupported("Statement type"))

\* BytecodeCompiler::compile_decl (a Function is walked item by item, see FuncEnter)
compile_decl(self, decl) ==
    LET fail(e) == [res |-> Err(e), self |-> self]
    IN  CASE decl.type = "Variable" -> compile_var_decl(self, decl.kind, decl.decls)
          [] decl.type = "Class" -> fail("Class declarations are not supported")
          [] decl.type = "Import" -> fail("Import declarations are not supported")
          [] decl.type = "Export" -> fail("Export declarations are not supported")

\* A failure is taken for an item that lowers to nothing.
skipped(r) == IF r.res.ok THEN r ELSE [res |-> Ok(BytecodeNew), self |-> r.self]

\* The bug "a failing item is skipped and the walk goes on".
compile_program_part_skip_failure(self, progrm_part) ==
    skipped(CASE progrm_part.part = "Dir" ->
                     [res |-> Err(are_unsupported("Directives")), self |-> self]
              [] progrm_part.part = "Decl" -> compile_decl(self, progrm_part.decl)
              [] progrm_part.part = "Stmt" -> compile_stmt(self, progrm_part.stmt))

\* BytecodeCompiler::compile_program_part
compile_program_part(self, progrm_part) ==
    CASE progrm_part.part = "Dir" ->
            [res |-> Err(are_unsupported("Directives")), self |-> self]
      [] progrm_part.part = "Decl" -> compile_decl(self, progrm_part.decl)
      [] progrm_part.part = "Stmt" -> compile_stmt(self, progrm_part.stmt)

(***************************************************************************)
(* compiler.rs: the walk over the program.  A compiler is the record       *)
(* [scopes, functions, isa], together with the stack of the items being    *)
(* walked (walk: the script, function bodies, blocks, each with the        *)
(* bytecode collected for it so far) and what compile has returned.        *)
(***************************************************************************)
NotReturned == [returned |-> FALSE, res |-> Ok(BytecodeNew)]
Returned(res) == [returned |-> TRUE, res |-> res]

Item(kind, arguments, func, begin) ==
    [kind |-> kind, bytecode |-> BytecodeNew, arguments |-> arguments,
     func |-> func, begin |-> begin]

\* BytecodeCompiler::new: the allocator, an empty function table, and the
\* selector with its constant registers taken from the allocator's pool.
BytecodeCompilerNew ==
    LET common_regs == CommonLiteralRegsNew(ScopesNew, <<>>)
    IN  [scopes |-> common_regs.self,
         functions |-> <<>>,
         isa |-> [common_regs |-> common_regs.res.val],
         walk |-> <<>>,
         outcome |-> NotReturned]

\* `?`: an error leaves compile at once; the bytecode collected so far is dropped.
return_early(self, res) == [self EXCEPT !.walk = <<>>, !.outcome = Returned(res)]

\* collect(): the bytecode of an item is appended to that of the enclosing item.
collect(self, bytecode) ==
    [self EXCEPT !.walk[Len(self.walk)].bytecode = combine(@, bytecode)]

\* BytecodeCompiler::compile, up to the walk over the script.
compile_enter(self, program) ==
    IF program = "Mod" THEN return_early(self, Err(are_unsupported("ES6 modules")))
    ELSE [self EXCEPT !.walk = <<Item("Script", <<>>, None, 0)>>]

\* The result of lowering one part: its bytecode is collected, its error returned.
collected(r) == IF r.res.ok THEN collect(r.self, r.res.val) ELSE return_early(r.self, r.res)

\* One step of the iteration over the parts of a script, a function body or a block.
lower_part(self, progrm_part) == collected(compile_program_part(self, progrm_part))

RECURSIVE compile_func_params(_, _, _)

\* The closure of compile_func over func.params.
compile_func_params(scps, params, arg_regs) ==
    IF params = <<>> THEN [res |-> Ok(arg_regs), self |-> scps]
    ELSE LET param == Head(params)
             ident == \/ param.arg = "Expr" /\ param.expr.type = "Ident"
                      \/ param.arg = "Pat" /\ param.pat.type = "Identifier"
             name == IF param.arg = "Expr" THEN param.expr.name ELSE param.pat.name
         IN  IF ~ident
             THEN [res |-> Err("Only identifiers are accepted as function arguments"),
                   self |-> scps]
             ELSE LET reg == add_decl(scps, name)
                  IN  IF ~reg.res.ok THEN reg
                      ELSE compile_func_params(reg.self, Tail(params),
                                               Append(arg_regs, reg.res.val))

\* BytecodeCompiler::compile_func, up to the walk over the body.
compile_func_enter(self, func, begin) ==
    IF func.generator \/ func.is_async
    THEN return_early(self, Err(are_unsupported("generator and async functions")))
    ELSE LET named == IF func.id.some THEN add_decl(self.scopes, func.id.val)
                      ELSE [res |-> Ok(0), self |-> self.scopes]
         IN  IF ~named.res.ok
             THEN return_early([self EXCEPT !.scopes = named.self], named.res)
             ELSE LET entered_scope == enter_new_scope(named.self)
                  IN  IF ~entered_scope.res.ok
                      THEN return_early([self EXCEPT !.scopes = entered_scope.self],
                                        entered_scope.res)
                      ELSE LET params == compile_func_params(entered_scope.self,
                                                             func.params, <<>>)
                           IN  IF ~params.res.ok
                               THEN return_early([self EXCEPT !.scopes = params.self],
                                                 params.res)
                               ELSE [self EXCEPT
                                       !.scopes = params.self,
                                       !.walk = Append(@, Item("Func", params.res.val,
                                                               func, begin))]

\* The bug "the table entry is made when the declaration is entered".
compile_func_leave_declaration_order(self, order, end) ==
    LET item == self.walk[Len(self.walk)]
        left == leave_current_scope(self.scopes, order)
        func_bc == IF last_op_is_return(item.bytecode) THEN item.bytecode
                   ELSE add(item.bytecode,
                            Command("ReturnBytecodeFunc", <<OperandRegistersArray(<<>>)>>))
        entry == [bytecode |-> func_bc, arguments |-> item.arguments,
                  ast |-> [func |-> item.func, begin |-> item.begin, end |-> end]]
        before == {i \in 1..Len(self.functions) : self.functions[i].ast.begin < item.begin}
    IN  IF ~left.res.ok
        THEN return_early([self EXCEPT !.scopes = left.self], left.res)
        ELSE [self EXCEPT
                !.scopes = left.self,
                !.functions = SubSeq(@, 1, Cardinality(before)) \o <<entry>> \o
                              SubSeq(@, Cardinality(before) + 1, Len(@)),
                !.walk = SubSeq(@, 1, Len(@) - 1)]

\* The bug "the implicit return is appended to every body".
compile_func_leave_always_return(self, order, end) ==
    LET item == self.walk[Len(self.walk)]
        left == leave_current_scope(self.scopes, order)
        func_bc == add(item.bytecode,
                       Command("ReturnBytecodeFunc", <<OperandRegistersArray(<<>>)>>))
    IN  IF ~left.res.ok
        THEN return_early([self EXCEPT !.scopes = left.self], left.res)
        ELSE [self EXCEPT
                !.scopes = left.self,
                !.functions = Append(@, [bytecode |-> func_bc,
                                         arguments |-> item.arguments,
                                         ast |-> [func |-> item.func,
                                                  begin |-> item.begin, end |-> end]]),
                !.walk = SubSeq(@, 1, Len(@) - 1)]

\* BytecodeCompiler::compile_func, after the walk over the body; order is the
\* iteration order of the declaration map of the function's frame.  The
\* declaration itself lowers to no bytecode at its place.
compile_func_leave(self, order, end) ==
    LET item == self.walk[Len(self.walk)]
        left == leave_current_scope(self.scopes, order)
        func_bc == IF last_op_is_return(item.bytecode) THEN item.bytecode
                   ELSE add(item.bytecode,
                            Command("ReturnBytecodeFunc", <<OperandRegistersArray(<<>>)>>))
    IN  IF ~left.res.ok
        THEN return_early([self EXCEPT !.scopes = left.self], left.res)
        ELSE [self EXCEPT
                !.scopes = left.self,
                !.functions = Append(@, [bytecode |-> func_bc,
                                         arguments |-> item.arguments,
                                         ast |-> [func |-> item.func,
                                                  begin |-> item.begin, end |-> end]]),
                !.walk = SubSeq(@, 1, Len(@) - 1)]

\* The bug "a block opens a scope of its own".
block_enter_scoped(self) ==
    [self EXCEPT !.scopes = enter_new_scope(@).self,
                 !.walk = Append(@, Item("Block", <<>>, None, 0))]

\* Stmt::Block in compile_stmt: the items of the block are walked in place.
block_enter(self) == [self EXCEPT !.walk = Append(@, Item("Block", <<>>, None, 0))]

block_leave(self) ==
    collect([self EXCEPT !.walk = SubSeq(@, 1, Len(@) - 1)],
            self.walk[Len(self.walk)].bytecode)

RECURSIVE functions_bytecode(_)

\* The bytecode of the functions of the table, one after the other.
functions_bytecode(functions) ==
    IF functions = <<>> THEN BytecodeNew
    ELSE combine(Head(functions).bytecode, functions_bytecode(Tail(functions)))

\* The bug "the function bodies are put in front of the top-level code".
compile_leave_bodies_first(self) ==
    LET bytecode == self.walk[1].bytecode
        bodies == functions_bytecode(self.functions)
    IN  [self EXCEPT
            !.walk = <<>>,
            !.outcome = Returned(Ok(combine(add(bodies, Command("Exit", <<>>)), bytecode)))]

\* BytecodeCompiler::compile, after the walk over the script.
compile_leave(self) ==
    LET bytecode == self.walk[1].bytecode
        bodies == functions_bytecode(self.functions)
    IN  [self EXCEPT
            !.walk = <<>>,
            !.outcome = Returned(IF bodies = <<>> THEN Ok(bytecode)
                                 ELSE Ok(combine(add(bytecode, Command("Exit", <<>>)),
                                                 bodies)))]

(***************************************************************************)
(* The programs: resast nodes                                              *)
(***************************************************************************)
Ident(name) == [type |-> "Ident", name |-> name]
Number(raw) == [type |-> "Literal", lit |-> [kind |-> "Number", raw |-> raw]]
String(raw) == [type |-> "Literal", lit |-> [kind |-> "String", raw |-> raw]]
Call(callee, arguments) == [type |-> "Call", callee |-> callee, arguments |-> arguments]
Member(object, property) == [type |-> "Member", object |-> object, property |-> property]
Assignment(operator, left, right) ==
    [type |-> "Assignment", operator |-> operator,
     left |-> [type |-> "Expr", expr |-> left], right |-> right]
Update(operator, prefix, argument) ==
    [type |-> "Update", operator |-> operator, prefix |-> prefix, argument |-> argument]
Unary(operator, prefix, argument) ==
    [type |-> "Unary", operator |-> operator, prefix |-> prefix, argument |-> argument]
ArrowFunction == [type |-> "ArrowFunction"]

PatIdentifier(name) == [type |-> "Identifier", name |-> name]
PatArray == [type |-> "Array"]
VariableDecl(id, init) == [id |-> id, init |-> init]

StmtExpr(expr) == [part |-> "Stmt", stmt |-> [type |-> "Expr", expr |-> expr]]
StmtVar(decls) == [part |-> "Stmt", stmt |-> [type |-> "Var", decls |-> decls]]
StmtReturn(ret) == [part |-> "Stmt", stmt |-> [type |-> "Return", ret |-> ret]]
Stmt(type) == [part |-> "Stmt", stmt |-> [type |-> type]]
DeclVariable(kind, decls) ==
    [part |-> "Decl", decl |-> [type |-> "Variable", kind |-> kind, decls |-> decls]]
Decl(type) == [part |-> "Decl", decl |-> [type |-> type]]
Dir == [part |-> "Dir"]
Function(id, params, generator) ==
    [id |-> id, params |-> params, generator |-> generator, is_async |-> FALSE]
ArgPat(pat) == [arg |-> "Pat", pat |-> pat]
ArgExpr(expr) == [arg |-> "Expr", expr |-> expr]

\* The program of spec section 8, with the update in postfix and in prefix form.
VarXIs1 == StmtVar(<<VariableDecl(PatIdentifier("x"), Some(Number("1")))>>)
XPlusPlus == StmtExpr(Update("Increment", FALSE, Ident("x")))
PlusPlusX == StmtExpr(Update("Increment", TRUE, Ident("x")))
ReturnX == StmtReturn(Some(Ident("x")))

\* The program parts the walk draws from, function declarations and blocks aside:
\* declarations and statements ...
StatementParts ==
    << VarXIs1,
       PlusPlusX,
       XPlusPlus,
       ReturnX,
       StmtReturn(None),
       Stmt("Empty"),
       StmtVar(<<VariableDecl(PatIdentifier("x"), None)>>),
       DeclVariable("Let", <<VariableDecl(PatIdentifier("b"), Some(String("TestString")))>>),
       DeclVariable("Var", <<VariableDecl(PatIdentifier("b"), Some(Ident("x")))>>),
       DeclVariable("Const", <<VariableDecl(PatIdentifier("x"), Some(Ident("x")))>>),
       Stmt("With") >>

\* ... or the rejected constructs, with a few accepted parts between them ...
RejectedParts ==
    << VarXIs1,
       ReturnX,
       XPlusPlus,
       StmtVar(<<VariableDecl(PatIdentifier("b"), None),
                 VariableDecl(PatArray, Some(Ident("x")))>>),
       StmtExpr(ArrowFunction),
       StmtExpr(Unary("Minus", FALSE, Ident("x"))),
       Stmt("Debugger"),
       Stmt("With"),
       Stmt("Throw"),
       Stmt("Try"),
       Stmt("ForIn"),
       Stmt("ForOf"),
       Stmt("If"),
       Decl("Class"),
       Decl("Import"),
       Decl("Export"),
       Dir >>

\* ... or expression statements.
ExpressionParts ==
    << VarXIs1,
       DeclVariable("Let", <<VariableDecl(PatIdentifier("b"), Some(String("TestString")))>>),
       PlusPlusX,
       StmtExpr(Assignment("Equal", Ident("x"), Number("70000"))),
       StmtExpr(Assignment("PlusEqual", Ident("x"), Ident("b"))),
       StmtExpr(Assignment("ModEqual", Ident("x"), Ident("b"))),
       StmtExpr(Call(Ident("f"), <<Ident("x"), Number("1")>>)),
       StmtExpr(Call(Ident("x"), <<Number("1"), Ident("x"), Number("0")>>)),
       StmtExpr(Member(Ident("x"), Ident("b"))),
       StmtExpr(Unary("Minus", TRUE, Ident("x"))),
       StmtExpr(Unary("Not", TRUE, Ident("x"))) >>

\* ... or declarations with an initializer of every supported kind.
InitializerParts ==
    << VarXIs1,
       DeclVariable("Var", <<VariableDecl(PatIdentifier("b"), Some(Ident("x")))>>),
       DeclVariable("Var", <<VariableDecl(PatIdentifier("b"), Some(String("TestString")))>>),
       DeclVariable("Var", <<VariableDecl(PatIdentifier("b"),
                                          Some(Call(Ident("x"), <<Ident("x")>>)))>>),
       DeclVariable("Var", <<VariableDecl(PatIdentifier("b"),
                                          Some(Member(Ident("x"), Ident("b"))))>>),
       DeclVariable("Var", <<VariableDecl(PatIdentifier("b"),
                                          Some(Unary("Minus", TRUE, Ident("x"))))>>),
       DeclVariable("Var", <<VariableDecl(PatIdentifier("b"),
                                          Some(Assignment("Equal", Ident("x"), Number("1"))))>>),
       DeclVariable("Var", <<VariableDecl(PatIdentifier("b"),
                                          Some(Assignment("PlusEqual", Ident("x"), Ident("x"))))>>),
       DeclVariable("Var", <<VariableDecl(PatIdentifier("b"),
                                          Some(Update("Increment", TRUE, Ident("x"))))>> ) >>

\* ... or statements that materialise one expression: the argument of a return
\* (no hint) and the callee of a call (the hint is the register of the call).
MaterializedParts ==
    << VarXIs1,
       ReturnX,
       StmtReturn(Some(Ident("b"))),
       StmtReturn(Some(Number("1"))),
       StmtReturn(Some(Unary("Minus", TRUE, Ident("x")))),
       StmtReturn(Some(Member(Ident("x"), Ident("b")))),
       StmtReturn(Some(Assignment("Equal", Ident("x"), Number("1")))),
       StmtReturn(Some(Update("Increment", TRUE, Ident("x")))),
       StmtExpr(Call(Ident("x"), <<>>)),
       StmtExpr(Call(Ident("b"), <<>>)),
       StmtExpr(Call(String("TestString"), <<>>)),
       StmtExpr(Call(Unary("Minus", TRUE, Ident("x")), <<>>)),
       StmtExpr(Call(Assignment("Equal", Ident("x"), Number("1")), <<>>)) >>

PartPool(of) ==
    CASE of = "statements" -> StatementParts
      [] of = "rejected" -> RejectedParts
      [] of = "expressions" -> ExpressionParts
      [] of = "initializers" -> InitializerParts
      [] of = "materialized" -> MaterializedParts

\* The function declarations the walk draws from.
FuncPool ==
    << Function(Some("f"), <<>>, FALSE),
       Function(Some("f"), <<ArgPat(PatIdentifier("a"))>>, FALSE),
       Function(Some("f"), <<ArgExpr(Ident("b"))>>, FALSE),
       Function(Some("f"), <<ArgPat(PatArray)>>, FALSE),
       Function(Some("g"), <<>>, TRUE) >>

\* Tokens of the source other than the simple parts.
Program(kind) == [part |-> kind]
DeclFunction(func) == [part |-> "Decl", decl |-> [type |-> "Function", func |-> func]]
BlockBegin == [part |-> "Stmt", stmt |-> [type |-> "Block"]]
End == [part |-> "End"]

\* Number of program parts one compilation lowers.
MaxParts == 3

(***************************************************************************)
(* State                                                                   *)
(***************************************************************************)
VARIABLES
    scopes,     \* the Scopes value: [scopes, unused_register]
    functions,  \* BytecodeCompiler.functions
    isa,        \* BytecodeCompiler.isa
    walk,       \* the items compile is walking, innermost last
    outcome,    \* what compile has returned
    source,     \* the program walked so far
    parts,      \* what the program is made of: "statements", "rejected" or "expressions"
    twin,       \* a second fresh compiler, given the same program
    entered,    \* per frame on the stack: the declarations visible when it was entered
    calls,      \* number of allocator calls made, or of program parts lowered
    last        \* the last call: its name, argument, result, and the allocator (compiler) before it

vars == <<scopes, functions, isa, walk, outcome, source, parts, twin, entered, calls, last>>
compiler == <<functions, isa, walk, outcome, source, parts, twin>>

NoTwin == [active |-> FALSE]
NoCall == [op |-> "new", arg |-> "", res |-> Ok(0), pre |-> ScopesNew, restored |-> EmptyDecls]

(***************************************************************************)
(* The allocator on its own, driven call by call (as test_scopes drives it)*)
(***************************************************************************)
Init ==
    /\ scopes = ScopesNew
    /\ functions = <<>>
    /\ isa = [common_regs |-> [regs |-> <<>>]]
    /\ walk = <<>>
    /\ outcome = NotReturned
    /\ source = <<>>
    /\ parts = ""
    /\ twin = NoTwin
    /\ entered = <<EmptyDecls>>
    /\ calls = 0
    /\ last = NoCall

Called(op, arg, res) ==
    /\ calls < MaxCalls
    /\ calls' = calls + 1
    /\ last' = [op |-> op, arg |-> arg, res |-> res, pre |-> scopes, restored |-> EmptyDecls]
    /\ UNCHANGED compiler

AddDecl ==
    \E decl \in DeclNames :
        LET r == add_decl(scopes, decl)
        IN  /\ scopes' = r.self
            /\ Called("add_decl", decl, r.res)
            /\ UNCHANGED entered

ReserveRegister ==
    LET r == reserve_register(scopes)
    IN  /\ scopes' = r.self
        /\ Called("reserve_register", "", r.res)
        /\ UNCHANGED entered

GetThrowawayRegister ==
    /\ Called("get_throwaway_register", "", get_throwaway_register(scopes))
    /\ UNCHANGED <<scopes, entered>>

GetVar ==
    \E var_name \in DeclNames :
        LET r == get_var(scopes, var_name)
        IN  /\ Called("get_var", var_name, IF r.ok THEN Ok(r.val.register) ELSE r)
            /\ UNCHANGED <<scopes, entered>>

EnterNewScope ==
    LET r == enter_new_scope(scopes)
    IN  /\ Len(scopes.scopes) < MaxDepth
        /\ scopes' = r.self
        /\ Called("enter_new_scope", "", r.res)
        /\ entered' = IF r.res.ok
                      THEN Append(entered, current_scope(scopes).val.decls)
                      ELSE entered

LeaveCurrentScope ==
    \E order \in TopOrders(scopes) :
        LET r == leave_current_scope(scopes, order)
        IN  /\ Len(r.self.unused_register) <= MaxFree
            /\ scopes' = r.self
            /\ calls < MaxCalls
            /\ calls' = calls + 1
            /\ last' = [op |-> "leave_current_scope", arg |-> "", res |-> r.res,
                        pre |-> scopes,
                        restored |-> IF r.res.ok /\ entered # <<>>
                                     THEN entered[Len(entered)] ELSE EmptyDecls]
            /\ entered' = IF r.res.ok /\ entered # <<>>
                          THEN SubSeq(entered, 1, Len(entered) - 1) ELSE entered
            /\ UNCHANGED compiler

Next ==
    \/ AddDecl
    \/ ReserveRegister
    \/ GetThrowawayRegister
    \/ GetVar
    \/ EnterNewScope
    \/ LeaveCurrentScope

Spec == Init /\ [][Next]_vars

(***************************************************************************)
(* One compilation by a fresh compiler, walked part by part                *)
(***************************************************************************)
Me == [scopes |-> scopes, functions |-> functions, isa |-> isa,
       walk |-> walk, outcome |-> outcome]

\* The compiler takes the step; so does the twin, if there is one, with its own
\* iteration order.
Step(step(_, _), order, twin_order) ==
    LET me == step(Me, order)
    IN  /\ scopes' = me.scopes
        /\ functions' = me.functions
        /\ isa' = me.isa
        /\ walk' = me.walk
        /\ outcome' = me.outcome
        /\ twin' = IF twin.active THEN [twin EXCEPT !.c = step(@, twin_order)] ELSE twin
        /\ UNCHANGED <<parts, entered>>

Lowered(op, arg, res) ==
    last' = [op |-> op, arg |-> arg, res |-> res, pre |-> Me, restored |-> EmptyDecls]

InitWith(of, second) ==
    /\ scopes = BytecodeCompilerNew.scopes
    /\ functions = BytecodeCompilerNew.functions
    /\ isa = BytecodeCompilerNew.isa
    /\ walk = BytecodeCompilerNew.walk
    /\ outcome = BytecodeCompilerNew.outcome
    /\ source = <<>>
    /\ parts = of
    /\ twin = second
    /\ entered = <<>>
    /\ calls = 0
    /\ last = [NoCall EXCEPT !.arg = Program("new"), !.pre = BytecodeCompilerNew]

InitCompile == InitWith("statements", NoTwin)

Walking == walk # <<>> /\ ~outcome.returned

Compile ==
    \E program \in {"Script", "Mod"} :
        /\ walk = <<>>
        /\ ~outcome.returned
        /\ Step(LAMBDA c, o : compile_enter(c, program), <<>>, <<>>)
        /\ source' = Append(source, Program(program))
        /\ Lowered("compile", Program(program), Ok(BytecodeNew))
        /\ UNCHANGED calls

LowerPart ==
    \E i \in 1..Len(PartPool(parts)) :
        /\ Walking
        /\ calls < MaxParts
        /\ Step(LAMBDA c, o : lower_part(c, PartPool(parts)[i]), <<>>, <<>>)
        /\ source' = Append(source, PartPool(parts)[i])
        /\ calls' = calls + 1
        /\ Lowered("compile_program_part", PartPool(parts)[i],
                   compile_program_part(Me, PartPool(parts)[i]).res)

FuncEnter ==
    \E i \in 1..Len(FuncPool) :
        /\ Walking
        /\ calls < MaxParts
        /\ Len(scopes.scopes) < MaxDepth
        /\ Step(LAMBDA c, o : compile_func_enter(c, FuncPool[i], Len(source) + 1), <<>>, <<>>)
        /\ source' = Append(source, DeclFunction(FuncPool[i]))
        /\ calls' = calls + 1
        /\ Lowered("compile_func", DeclFunction(FuncPool[i]),
                   compile_func_enter(Me, FuncPool[i], Len(source) + 1).outcome.res)

FuncLeave ==
    /\ Walking
    /\ walk[Len(walk)].kind = "Func"
    /\ \E order \in TopOrders(scopes) :
          \E twin_order \in IF twin.active THEN TopOrders(twin.c.scopes) ELSE {<<>>} :
              /\ Step(LAMBDA c, o : compile_func_leave(c, o, Len(source) + 1),
                      order, twin_order)
              /\ Lowered("compile_func", End,
                         compile_func_leave(Me, order, Len(source) + 1).outcome.res)
    /\ source' = Append(source, End)
    /\ UNCHANGED calls

BlockEnter ==
    /\ Walking
    /\ calls < MaxParts
    /\ Step(LAMBDA c, o : block_enter(c), <<>>, <<>>)
    /\ source' = Append(source, BlockBegin)
    /\ calls' = calls + 1
    /\ Lowered("compile_stmt", BlockBegin, Ok(BytecodeNew))

BlockLeave ==
    /\ Walking
    /\ walk[Len(walk)].kind = "Block"
    /\ Step(LAMBDA c, o : block_leave(c), <<>>, <<>>)
    /\ source' = Append(source, End)
    /\ Lowered("compile_stmt", End, Ok(walk[Len(walk)].bytecode))
    /\ UNCHANGED calls

CompileLeave ==
    /\ Walking
    /\ Len(walk) = 1
    /\ Step(LAMBDA c, o : compile_leave(c), <<>>, <<>>)
    /\ source' = Append(source, End)
    /\ Lowered("compile", End, compile_leave(Me).outcome.res)
    /\ UNCHANGED calls

NextCompile ==
    \/ Compile
    \/ LowerPart
    \/ FuncEnter
    \/ FuncLeave
    \/ BlockEnter
    \/ BlockLeave
    \/ CompileLeave

SpecCompile == InitCompile /\ [][NextCompile]_vars

\* Programs with rejected constructs.
InitRejected == InitWith("rejected", NoTwin)

SpecRejected == InitRejected /\ [][NextCompile]_vars

\* Programs of expression statements.
InitExpressions == InitWith("expressions", NoTwin)

SpecExpressions == InitExpressions /\ [][NextCompile]_vars

\* Programs of declarations with initializers.
InitInitializers == InitWith("initializers", NoTwin)

SpecInitializers == InitInitializers /\ [][NextCompile]_vars

\* Programs of statements that materialise one expression.
InitMaterialized == InitWith("materialized", NoTwin)

SpecMaterialized == InitMaterialized /\ [][NextCompile]_vars

(***************************************************************************)
(* The operator selectors of a fresh compiler, called one by one           *)
(***************************************************************************)
\* The operators of the syntax tree, mapped or named in the selectors.
AssignmentOperators ==
    {"Equal", "PlusEqual", "MinusEqual", "TimesEqual", "DivEqual", "ModEqual",
     "LeftShiftEqual", "RightShiftEqual", "UnsignedRightShiftEqual", "OrEqual",
     "XOrEqual", "AndEqual", "PowerOfEqual"}
UnaryOperators == {"Minus", "Plus", "Not", "Tilde", "TypeOf", "Void", "Delete"}
BinaryOperators ==
    {"Equal", "NotEqual", "StrictEqual", "StrictNotEqual", "LessThan", "GreaterThan",
     "LessThanEqual", "GreaterThanEqual", "LeftShift", "RightShift",
     "UnsignedRightShift", "Plus", "Minus", "Times", "Over", "Mod", "Or", "XOr",
     "And", "In", "InstanceOf", "PowerOf"}
Registers == 0..(MaxReg - 1)

InitSelectors == InitWith("selectors", NoTwin)

\* A selector is called once, on the fresh compiler.
Fresh == last.op = "new"

Selected(selector, op, regs, res) ==
    /\ last' = [op |-> selector, arg |-> [operator |-> op, regs |-> regs], res |-> res,
                pre |-> Me, restored |-> EmptyDecls]
    /\ UNCHANGED <<scopes, compiler, entered, calls>>

AssignmentOp ==
    \E op \in AssignmentOperators, rd \in Registers, rs \in Registers :
        /\ Fresh
        /\ Selected("assignment_op", op, <<rd, rs>>, assignment_op(isa, op, rd, rs))

UnaryOp ==
    \E op \in UnaryOperators, rd \in Registers, rs \in Registers :
        /\ Fresh
        /\ Selected("unary_op", op, <<rd, rs>>, unary_op(isa, op, rd, rs))

BinaryOp ==
    \E op \in BinaryOperators, rd \in Registers, r0 \in Registers, r1 \in Registers :
        /\ Fresh
        /\ Selected("binary_op", op, <<rd, r0, r1>>, binary_op(isa, op, rd, r0, r1))

NextSelectors ==
    \/ AssignmentOp
    \/ UnaryOp
    \/ BinaryOp

SpecSelectors == InitSelectors /\ [][NextSelectors]_vars

\* Two fresh compilers are given the same program.
InitTwin == InitWith("statements", [active |-> TRUE, c |-> BytecodeCompilerNew])

SpecTwin == InitTwin /\ [][NextCompile]_vars

(***************************************************************************)
(* Claims about the allocator (specification Spec)                         *)
(***************************************************************************)
Issued == last.op \in {"add_decl", "reserve_register"} /\ last.res.ok
Left == last.op = "leave_current_scope" /\ last.res.ok
PoppedFrame == last.pre.scopes[Len(last.pre.scopes)]
NumReturned ==
    Cardinality(DOMAIN PoppedFrame.decls) + Len(PoppedFrame.unnamed_reserved_registers)

\* The registers of the bindings resolvable in some frame of the stack, the
\* binding the last add_decl has just made left aside.
LiveRegisters ==
    {scopes.scopes[i].decls[n].register :
        <<i, n>> \in {p \in (1..Len(scopes.scopes)) \X DeclNames :
                        /\ p[2] \in DOMAIN scopes.scopes[p[1]].decls
                        /\ ~(last.op = "add_decl" /\ p[1] = Len(scopes.scopes)
                             /\ p[2] = last.arg)}}

\* C1: a register issued by add_decl or reserve_register is, when it is issued,
\* not the register of any binding still resolvable in a frame on the stack.
NoDoubleIssue == Issued => last.res.val \notin LiveRegisters

\* C2: leaving a scope entered by enter_new_scope restores the visibility that
\* existed at entry: a name bound then resolves to the register it had then, and
\* every other name is unresolvable.
ScopeExitRestoresVisibility ==
    (Left /\ Len(last.pre.scopes) >= 2) =>
        \A n \in DeclNames :
            IF n \in DOMAIN last.restored
            THEN /\ get_var(scopes, n).ok
                 /\ get_var(scopes, n).val.register = last.restored[n].register
            ELSE ~get_var(scopes, n).ok

\* C2 witness: the scope that was left had declared a new name and had
\* re-declared a name of the enclosing scope.
ScopeExitAfterShadowing ==
    /\ Left
    /\ Len(last.pre.scopes) >= 2
    /\ \E n \in DOMAIN PoppedFrame.decls : n \notin DOMAIN last.restored
    /\ \E n \in DOMAIN last.restored :
          PoppedFrame.decls[n].register # last.restored[n].register

\* C3 as stated: add_decl and reserve_register shorten the free queue by one;
\* leave_current_scope strictly lengthens it, by at least the registers returned.
FreePoolStrictlyGrowsOnLeave ==
    /\ Issued => Len(scopes.unused_register) = Len(last.pre.unused_register) - 1
    /\ Left => /\ Len(scopes.unused_register) > Len(last.pre.unused_register)
               /\ Len(scopes.unused_register) - Len(last.pre.unused_register) >= NumReturned

\* C3 amended: add_decl and reserve_register shorten the free queue by one;
\* leave_current_scope lengthens it by at least the registers the popped frame
\* returns, strictly when the frame returns at least one register.
FreePoolGrowsOnLeave ==
    /\ Issued => Len(scopes.unused_register) = Len(last.pre.unused_register) - 1
    /\ Left => /\ Len(scopes.unused_register) - Len(last.pre.unused_register) >= NumReturned
               /\ NumReturned > 0 =>
                     Len(scopes.unused_register) > Len(last.pre.unused_register)

\* C3 witness: a frame holding two bindings was left after a register was issued.
LeftFrameWithBindings ==
    /\ Left
    /\ NumReturned = 2
    /\ Len(scopes.unused_register) = Len(last.pre.unused_register) + 2
    /\ Len(last.pre.unused_register) < MaxReg

\* C10: leave_current_scope fails exactly when the stack holds no frame; leaving
\* the only frame empties the stack, and on the empty stack current_scope,
\* get_var, add_decl and leave_current_scope all fail.
LeaveFailsIffNoFrame ==
    /\ last.op = "leave_current_scope" => (~last.res.ok <=> last.pre.scopes = <<>>)
    /\ (last.op = "leave_current_scope" /\ Len(last.pre.scopes) = 1) =>
          (last.res.ok /\ scopes.scopes = <<>>)
    /\ (last.pre.scopes = <<>> /\ last.op \in {"get_var", "add_decl", "leave_current_scope"}) =>
          ~last.res.ok
    /\ scopes.scopes = <<>> => ~current_scope(scopes).ok

\* C10 witness: a second leave_current_scope, on the emptied stack, has failed.
LeaveFailedOnEmptyStack ==
    /\ last.op = "leave_current_scope"
    /\ ~last.res.ok
    /\ last.res.err = ErrLeave
    /\ scopes.scopes = <<>>

(***************************************************************************)
(* Claims about one compilation                                            *)
(***************************************************************************)
Succeeded == outcome.returned /\ outcome.res.ok
Failed == outcome.returned /\ ~outcome.res.ok

\* The places of the source where a function declaration begins.
Declared ==
    {i \in 1..Len(source) : source[i].part = "Decl" /\ source[i].decl.type = "Function"}

\* What compile has returned, and the bytecode of the script's own parts.
Output == outcome.res.val
TopLevel == last.pre.walk[1].bytecode
Exits == {i \in 1..Len(Output) : Output[i].instruction = "Exit"}

RECURSIVE BodiesLength(_, _)
\* Number of instructions of the first n function bodies of the table.
BodiesLength(table, n) ==
    IF n = 0 THEN 0 ELSE BodiesLength(table, n - 1) + Len(table[n].bytecode)

\* Where the body of the i-th function of the table is in the output.
BodyStart(i) == Len(TopLevel) + 2 + BodiesLength(functions, i - 1)
BodyAt(i) ==
    /\ BodyStart(i) + Len(functions[i].bytecode) - 1 <= Len(Output)
    /\ \A k \in 1..Len(functions[i].bytecode) :
          Output[BodyStart(i) + k - 1] = functions[i].bytecode[k]

\* C4: two fresh compilers given the same program return the same bytecode,
\* register numbers included.
SameProgramSameBytecode ==
    (Succeeded /\ twin.c.outcome.returned) => twin.c.outcome.res = outcome.res

\* C5: the output of a successful compile has an Exit exactly when a function
\* was declared; it is then the top-level bytecode, one Exit, and the function
\* bodies, and without functions it is the top-level bytecode alone.
ExitSeparatesFunctionBodies ==
    Succeeded =>
        /\ (Exits # {}) <=> (Declared # {})
        /\ Declared # {} =>
              /\ Exits = {Len(TopLevel) + 1}
              /\ SubSeq(Output, 1, Len(TopLevel)) = TopLevel
              /\ Len(functions) = Cardinality(Declared)
              /\ Len(Output) = Len(TopLevel) + 1 + BodiesLength(functions, Len(functions))
              /\ \A i \in 1..Len(functions) : BodyAt(i)
        /\ Declared = {} => Output = TopLevel

\* C5 witness: a program with top-level code and a function has been compiled.
CompiledCodeAndFunction ==
    /\ Succeeded
    /\ Declared # {}
    /\ TopLevel # <<>>
    /\ Output[Len(TopLevel) + 1].instruction = "Exit"

\* C6 as stated: of any two function declarations, the one that begins earlier
\* in the source has its body earlier in the output.
BodiesInDeclarationOrder ==
    Succeeded =>
        \A i, j \in 1..Len(functions) :
            functions[i].ast.begin < functions[j].ast.begin =>
                (BodyAt(i) /\ BodyAt(j) /\ BodyStart(i) < BodyStart(j))

\* C6 amended: the bodies are in the order in which the declarations end: of two
\* declarations neither of which contains the other, the earlier has its body
\* first; a function declared inside another has its body before the enclosing one.
BodiesInCompletionOrder ==
    Succeeded =>
        \A i, j \in 1..Len(functions) :
            functions[i].ast.begin < functions[j].ast.begin =>
                /\ BodyAt(i)
                /\ BodyAt(j)
                /\ IF functions[j].ast.end < functions[i].ast.end
                   THEN BodyStart(j) < BodyStart(i)
                   ELSE BodyStart(i) < BodyStart(j)

\* C6 witness: a function declared inside another function, and one declared
\* after another, have been compiled.
CompiledNestedFunction ==
    /\ Succeeded
    /\ \E i, j \in 1..Len(functions) :
          /\ functions[i].ast.begin < functions[j].ast.begin
          /\ functions[j].ast.end < functions[i].ast.end
    /\ \E i, j \in 1..Len(functions) :
          /\ functions[i].ast.end < functions[j].ast.begin

\* The constructs the compiler rejects, and the error each is rejected with.
RejectedExpr(expr) ==
    \/ expr.type = "ArrowFunction"
    \/ expr.type \in {"Update", "Unary"} /\ ~expr.prefix
HasPattern(decls) == \E k \in 1..Len(decls) : decls[k].id.type # "Identifier"
HasPatternParam(params) ==
    \E k \in 1..Len(params) :
        \/ params[k].arg = "Expr" /\ params[k].expr.type # "Ident"
        \/ params[k].arg = "Pat" /\ params[k].pat.type # "Identifier"
RejectedStmts == {"Debugger", "With", "Throw", "Try", "ForIn", "ForOf", "If"}

IsRejected(t) ==
    CASE t.part \in {"Mod", "Dir"} -> TRUE
      [] t.part = "Decl" ->
            \/ t.decl.type \in {"Class", "Import", "Export"}
            \/ t.decl.type = "Variable" /\ HasPattern(t.decl.decls)
            \/ t.decl.type = "Function"
                  /\ (t.decl.func.generator \/ HasPatternParam(t.decl.func.params))
      [] t.part = "Stmt" ->
            \/ t.stmt.type \in RejectedStmts
            \/ t.stmt.type = "Var" /\ HasPattern(t.stmt.decls)
            \/ t.stmt.type = "Expr" /\ RejectedExpr(t.stmt.expr)
      [] OTHER -> FALSE

RejectionError(t) ==
    CASE t.part = "Mod" -> "ES6 modules are not supported"
      [] t.part = "Dir" -> "Directives are not supported"
      [] t.part = "Decl" /\ t.decl.type = "Class" -> "Class declarations are not supported"
      [] t.part = "Decl" /\ t.decl.type = "Import" -> "Import declarations are not supported"
      [] t.part = "Decl" /\ t.decl.type = "Export" -> "Export declarations are not supported"
      [] t.part = "Decl" /\ t.decl.type = "Variable" -> "'Array Patterns' are not supported"
      [] t.part = "Decl" /\ t.decl.type = "Function" ->
            IF t.decl.func.generator THEN "generator and async functions are not supported"
            ELSE "Only identifiers are accepted as function arguments"
      [] t.part = "Stmt" /\ t.stmt.type = "Debugger" -> "Debugger statments are not supported"
      [] t.part = "Stmt" /\ t.stmt.type = "With" -> "'with' statments are not supported"
      [] t.part = "Stmt" /\ t.stmt.type = "Throw" -> "'throw' statments are not supported"
      [] t.part = "Stmt" /\ t.stmt.type = "Try" -> "'try' statments are not supported"
      [] t.part = "Stmt" /\ t.stmt.type = "ForIn" -> "for-in statments are not supported"
      [] t.part = "Stmt" /\ t.stmt.type = "ForOf" -> "for-of statments are not supported"
      [] t.part = "Stmt" /\ t.stmt.type = "If" -> "Statement type is not supported"
      [] t.part = "Stmt" /\ t.stmt.type = "Var" -> "'Array Patterns' are not supported"
      [] t.part = "Stmt" /\ t.stmt.type = "Expr" ->
            IF t.stmt.expr.type = "ArrowFunction" THEN "Arrow functions are not supported"
            ELSE IF t.stmt.expr.type = "Update"
                 THEN "suffix update expressions are not supported"
                 ELSE "suffix unary expressions are not supported"

\* The constructs that are reached only after a register has been asked for (the
\* throwaway register of an expression statement, the register of an earlier
\* declarator or of the function's name): with the pool empty, that request
\* is the first item to fail.
AllocatesFirst(t) ==
    \/ t.part = "Stmt" /\ t.stmt.type \in {"Expr", "Var"}
    \/ t.part = "Decl" /\ t.decl.type = "Variable"
    \/ t.part = "Decl" /\ t.decl.type = "Function" /\ ~t.decl.func.generator

\* C7: a rejected construct makes compile return an error and no bytecode; it is
\* the last item lowered (nothing after it is walked), and the error is the one
\* that names it, unless a register request made before it is reached failed first.
RejectedConstructFailsCompile ==
    \A i \in 1..Len(source) :
        IsRejected(source[i]) =>
            /\ i = Len(source)
            /\ Failed
            /\ ~outcome.res.panic
            /\ walk = <<>>
            /\ functions = last.pre.functions
            /\ \/ outcome.res.err = RejectionError(source[i])
               \/ /\ AllocatesFirst(source[i])
                  /\ outcome.res.err = ErrAllRegs
                  /\ last.pre.scopes.unused_register = <<>>

\* C7 witness: a rejected construct came after parts that changed the allocator.
RejectedAfterAcceptedParts ==
    /\ Failed
    /\ Len(source) >= 4
    /\ IsRejected(source[Len(source)])
    /\ outcome.res.err = RejectionError(source[Len(source)])
    /\ scopes.unused_register # BytecodeCompilerNew.scopes.unused_register

\* The program of spec section 8.
PostfixProgram == <<Program("Script"), VarXIs1, XPlusPlus, ReturnX, End>>
PrefixProgram == <<Program("Script"), VarXIs1, PlusPlusX, ReturnX, End>>
SameExpr(e, f) == e.type = f.type /\ e = f
SameOption(a, b) == a.some = b.some /\ (a.some => SameExpr(a.val, b.val))
SameDecls(ds, es) ==
    /\ Len(ds) = Len(es)
    /\ \A k \in 1..Len(ds) :
          /\ ds[k].id.type = es[k].id.type
          /\ ds[k].id = es[k].id
          /\ SameOption(ds[k].init, es[k].init)
SameItem(t, u) ==
    /\ t.part = u.part
    /\ t.part = "Stmt" =>
          /\ t.stmt.type = u.stmt.type
          /\ t.stmt.type = "Var" => SameDecls(t.stmt.decls, u.stmt.decls)
          /\ t.stmt.type = "Expr" => SameExpr(t.stmt.expr, u.stmt.expr)
          /\ t.stmt.type = "Return" => SameOption(t.stmt.ret, u.stmt.ret)
IsPrefixOf(s, t) == Len(s) <= Len(t) /\ \A i \in 1..Len(s) : SameItem(s[i], t[i])
Is(s, t) == Len(s) = Len(t) /\ IsPrefixOf(s, t)
LoadAddReturn(rx) ==
    << Command("LoadNum", <<OperandRegister(rx), OperandShortNum(1)>>),
       Command("Add", <<OperandRegister(rx), OperandRegister(rx),
                        OperandRegister(isa.common_regs.regs[2])>>),
       Command("ReturnBytecodeFunc", <<OperandRegistersArray(<<rx>>)>>) >>

\* C8 as stated: `var x = 1; x++; return x;` compiles to a LoadNum of 1 into x's
\* register, an Add of x's register and the constant-1 register into x's
\* register, and a ReturnBytecodeFunc of x's register.
PostfixExampleCompiles ==
    /\ IsPrefixOf(source, PostfixProgram) => ~Failed
    /\ Is(source, PostfixProgram) =>
          (Succeeded /\ Output = LoadAddReturn(get_var(scopes, "x").val.register))

\* C8 amended: `var x = 1; ++x; return x;` compiles to those three
\* instructions; with the update in postfix form compile returns an error.
PrefixExampleCompiles ==
    /\ IsPrefixOf(source, PrefixProgram) => ~Failed
    /\ Is(source, PrefixProgram) =>
          (Succeeded /\ Output = LoadAddReturn(get_var(scopes, "x").val.register))
    /\ Is(source, SubSeq(PostfixProgram, 1, 3)) =>
          (Failed /\ outcome.res.err = "suffix update expressions are not supported")

\* C8 witness: the program with the prefix update has been compiled.
PrefixExampleCompiled == Is(source, PrefixProgram) /\ Succeeded /\ Len(Output) = 3

\* The declarators of a variable declaration or var statement.
IsVarDecl(t) ==
    \/ t.part = "Decl" /\ t.decl.type = "Variable"
    \/ t.part = "Stmt" /\ t.stmt.type = "Var"
DeclsOf(t) == IF t.part = "Decl" THEN t.decl.decls ELSE t.stmt.decls
LoweredOneDeclarator ==
    /\ last.op = "compile_program_part"
    /\ IsVarDecl(last.arg)
    /\ Len(DeclsOf(last.arg)) = 1
    /\ DeclsOf(last.arg)[1].id.type = "Identifier"
    /\ last.res.ok

\* C9: an accepted declarator binds its name to the register at the front of the
\* free queue, which get_var resolves afterwards, and emits nothing without an
\* initializer, one Copy (register of the name, register of b) for a bound
\* identifier b, one LoadString (register of the name, the literal) for a string.
DeclaratorLowering ==
    LoweredOneDeclarator =>
        LET decl == DeclsOf(last.arg)[1]
            var == get_var(scopes, decl.id.name)
            emitted == last.res.val
        IN  /\ var.ok
            /\ var.val.register = Head(last.pre.scopes.unused_register)
            /\ scopes.unused_register = Tail(last.pre.scopes.unused_register)
            /\ walk[Len(walk)].bytecode =
                  last.pre.walk[Len(walk)].bytecode \o emitted
            /\ ~decl.init.some => emitted = <<>>
            /\ (decl.init.some /\ decl.init.val.type = "Ident") =>
                  /\ emitted = << Command("Copy",
                                     << OperandRegister(var.val.register),
                                        OperandRegister(
                                            get_var(scopes, decl.init.val.name).val.register) >>) >>
                  /\ decl.init.val.name # decl.id.name =>
                        get_var(last.pre.scopes, decl.init.val.name) =
                            get_var(scopes, decl.init.val.name)
            /\ (decl.init.some /\ decl.init.val.type = "Literal"
                               /\ decl.init.val.lit.kind = "String") =>
                  emitted = << Command("LoadString",
                                  << OperandRegister(var.val.register),
                                     OperandString(decl.init.val.lit.raw) >>) >>

\* C9 witness: `var b = x` has been lowered with x bound to another register.
LoweredCopyDeclarator ==
    /\ LoweredOneDeclarator
    /\ DeclsOf(last.arg)[1].init.some
    /\ DeclsOf(last.arg)[1].init.val.type = "Ident"
    /\ DeclsOf(last.arg)[1].init.val.name # DeclsOf(last.arg)[1].id.name
    /\ last.res.val[1].operands[1] # last.res.val[1].operands[2]

(***************************************************************************)
(* Claims about the scope stack during one compilation                     *)
(***************************************************************************)
\* The functions whose bodies are being walked.
OpenFunctions == {k \in 1..Len(walk) : walk[k].kind = "Func"}

\* C11: a fresh compiler has one scope frame; while compile runs the stack holds
\* at least one frame (one, and one more per function whose body is being
\* lowered); after a successful compile it holds exactly one.
ScopeStackNeverEmpties ==
    /\ Len(scopes.scopes) >= 1
    /\ source = <<>> => Len(scopes.scopes) = 1
    /\ Walking => Len(scopes.scopes) = 1 + Cardinality(OpenFunctions)
    /\ Succeeded => Len(scopes.scopes) = 1

\* C11 witness: a program with a function inside a function has been compiled.
BackToOneFrameAfterNesting ==
    /\ Succeeded
    /\ Len(scopes.scopes) = 1
    /\ \E i, j \in 1..Len(functions) :
          /\ functions[j].ast.begin < functions[i].ast.begin
          /\ functions[i].ast.end < functions[j].ast.end

(***************************************************************************)
(* Claims about the lowering of initializers                               *)
(***************************************************************************)
LoweredInitializer ==
    /\ LoweredOneDeclarator
    /\ DeclsOf(last.arg)[1].init.some
InitializerKind ==
    LET init == DeclsOf(last.arg)[1].init.val
    IN  IF init.type = "Literal" THEN init.lit.kind ELSE init.type

\* C12: the sequence emitted for an accepted declarator with an initializer is
\* not empty and its last instruction has the declarator's register as its
\* destination (first) operand, whatever the kind of the initializer.
InitializerIntoDeclaratorRegister ==
    LoweredInitializer =>
        /\ last.res.val # <<>>
        /\ last.res.val[Len(last.res.val)].operands[1] =
              OperandRegister(get_var(scopes, DeclsOf(last.arg)[1].id.name).val.register)

(***************************************************************************)
(* Claims about temporaries and inherited registers (specification Spec)   *)
(***************************************************************************)
Range(seq) == {seq[i] : i \in 1..Len(seq)}

\* C13: a register obtained through reserve_register while a frame was the top
\* frame is in the free queue once that frame has been left (here: when the
\* frame is left by the call that follows the reservation).
ReservedRegisterReturnedOnLeave ==
    [][(/\ last.op = "reserve_register"
        /\ last.res.ok
        /\ last'.op = "leave_current_scope"
        /\ last'.res.ok)
          => last.res.val \in Range(scopes'.unused_register)]_vars

\* The function declaration whose lowering has just been completed: the frame
\* popped for it, the frame enclosing it, and the registers its leave queued.
LoweredFunction == last.op = "compile_func" /\ last.arg = End /\ last.res.ok
FunctionFrame == last.pre.scopes.scopes[Len(last.pre.scopes.scopes)]
EnclosingFrame == scopes.scopes[Len(scopes.scopes)]
Queued ==
    SubSeq(scopes.unused_register,
           Len(last.pre.scopes.unused_register) + 1, Len(scopes.unused_register))

\* C14 as stated: after a function declaration has been lowered, the register of
\* the function's own name and of every enclosing binding is in the free queue.
EveryEnclosingRegisterFreedByFunction ==
    LoweredFunction =>
        \A n \in DOMAIN EnclosingFrame.decls :
            EnclosingFrame.decls[n].register \in Range(scopes.unused_register)

\* C14 amended: leaving the frame of a function queues the register of every
\* binding of the enclosing frame that the function's frame still holds
\* unchanged (not re-declared by a parameter, variable or nested function),
\* while the enclosing frame still binds it; the function's own name is bound
\* in the enclosing frame.
InheritedRegistersFreedByFunction ==
    LoweredFunction =>
        /\ last.pre.walk[Len(last.pre.walk)].func.id.val \in DOMAIN EnclosingFrame.decls
        /\ DOMAIN EnclosingFrame.decls \subseteq DOMAIN FunctionFrame.decls
        /\ \A n \in DOMAIN EnclosingFrame.decls :
              FunctionFrame.decls[n] = EnclosingFrame.decls[n] =>
                  /\ EnclosingFrame.decls[n].register \in Range(Queued)
                  /\ get_var(scopes, n).val = EnclosingFrame.decls[n]

\* C14 witness: a function has been lowered whose frame re-declared one
\* enclosing binding and inherited another, whose register is now both bound
\* and free.
FreedWhileBoundByFunction ==
    /\ LoweredFunction
    /\ \E n, m \in DOMAIN EnclosingFrame.decls :
          /\ FunctionFrame.decls[n] = EnclosingFrame.decls[n]
          /\ EnclosingFrame.decls[n].register \in Range(Queued)
          /\ FunctionFrame.decls[m] # EnclosingFrame.decls[m]
          /\ EnclosingFrame.decls[m].register \notin Range(scopes.unused_register)

\* C14, at the allocator: enter_new_scope followed by leave_current_scope queues
\* the register of every binding the parent had at entry and the child has not
\* re-declared, while the parent still binds it.
InheritedRegistersFreedOnLeave ==
    (Left /\ scopes.scopes # <<>>) =>
        \A n \in DOMAIN last.restored :
            PoppedFrame.decls[n] = last.restored[n] =>
                /\ last.restored[n].register \in
                      Range(SubSeq(scopes.unused_register,
                                   Len(last.pre.unused_register) + 1,
                                   Len(scopes.unused_register)))
                /\ get_var(scopes, n).val = last.restored[n]

(***************************************************************************)
(* Claims about expressions (specification SpecExpressions)                *)
(***************************************************************************)
\* The call statement that has just been lowered: its arguments and the
\* argument-register list of its CallFunc.
LoweredCall ==
    /\ last.op = "compile_program_part"
    /\ last.res.ok
    /\ last.arg.part = "Stmt"
    /\ last.arg.stmt.type = "Expr"
    /\ last.arg.stmt.expr.type = "Call"
CallArguments == last.arg.stmt.expr.arguments
CallArgRegs == last.res.val[Len(last.res.val)].operands[3].regs
BoundBefore(expr) == expr.type = "Ident" /\ get_var(last.pre.scopes, expr.name).ok
BoundRegisters(self) ==
    UNION {{self.scopes[k].decls[n].register : n \in DOMAIN self.scopes[k].decls} :
              k \in 1..Len(self.scopes)}

\* C15 as stated: every entry of the argument-register list of a CallFunc is a
\* register newly reserved for that argument, not the register of an existing
\* binding and not shared with another argument, in the order of the arguments.
CallArgumentsInFreshRegisters ==
    LoweredCall =>
        /\ Len(CallArgRegs) = Len(CallArguments)
        /\ \A k \in 1..Len(CallArgRegs) :
              /\ CallArgRegs[k] \in Range(last.pre.scopes.unused_register)
              /\ CallArgRegs[k] \notin BoundRegisters(last.pre.scopes)
              /\ \A j \in 1..Len(CallArgRegs) : j # k => CallArgRegs[j] # CallArgRegs[k]

\* The positions of the arguments lowered in full, in order.
RECURSIVE LoweredPositions(_)
LoweredPositions(k) ==
    IF k = 0 THEN <<>>
    ELSE IF BoundBefore(CallArguments[k]) THEN LoweredPositions(k - 1)
         ELSE Append(LoweredPositions(k - 1), k)

\* C15 amended: the list has one entry per argument, in the order of the
\* arguments; an argument that is a bare identifier bound in the current scope
\* contributes the register of its binding, every other argument the register
\* reserved for it, that is the registers taken from the front of the free
\* queue, one after the other.
CallArgumentsLeftToRight ==
    LoweredCall =>
        LET lowered == LoweredPositions(Len(CallArguments))
        IN  /\ Len(CallArgRegs) = Len(CallArguments)
            /\ \A k \in 1..Len(CallArguments) :
                  BoundBefore(CallArguments[k]) =>
                      CallArgRegs[k] =
                          get_var(last.pre.scopes, CallArguments[k].name).val.register
            /\ Len(lowered) <= Len(last.pre.scopes.unused_register)
            /\ \A i \in 1..Len(lowered) :
                  CallArgRegs[lowered[i]] = last.pre.scopes.unused_register[i]
            /\ scopes.unused_register =
                  SubSeq(last.pre.scopes.unused_register, Len(lowered) + 1,
                         Len(last.pre.scopes.unused_register))

\* C15 witness: a call has been lowered with a bound identifier between two
\* literals among its arguments.
LoweredCallWithAliasedArguments ==
    /\ LoweredCall
    /\ Len(CallArguments) = 3
    /\ Len(LoweredPositions(3)) = 2
    /\ CallArgRegs[1] # CallArgRegs[3]

(***************************************************************************)
(* Claims about maybe_compile_expr (specification SpecMaterialized)        *)
(***************************************************************************)
\* The statement that has just been lowered materialised one expression: the
\* argument of a return, with no hint, or the callee of a call without
\* arguments, with the register of the call as the hint.
MaterializedByReturn ==
    /\ last.arg.part = "Stmt"
    /\ last.arg.stmt.type = "Return"
    /\ last.arg.stmt.ret.some
MaterializedByCall ==
    /\ last.arg.part = "Stmt"
    /\ last.arg.stmt.type = "Expr"
    /\ last.arg.stmt.expr.type = "Call"
    /\ last.arg.stmt.expr.arguments = <<>>
Materialized ==
    /\ last.op = "compile_program_part"
    /\ last.res.ok
    /\ MaterializedByReturn \/ MaterializedByCall
MaterializedExpr ==
    IF MaterializedByReturn THEN last.arg.stmt.ret.val ELSE last.arg.stmt.expr.callee
Hinted == MaterializedByCall
Consumer == last.res.val[Len(last.res.val)]
ReturnedRegister ==
    IF MaterializedByReturn THEN Consumer.operands[1].regs[1] ELSE Consumer.operands[2].num
EmittedCode == SubSeq(last.res.val, 1, Len(last.res.val) - 1)
FastPath == BoundBefore(MaterializedExpr)
IsSuffixOf(s, t) ==
    Len(s) <= Len(t) /\ s = SubSeq(t, Len(t) - Len(s) + 1, Len(t))

\* The register maybe_compile_expr returns, and what it takes from the free
\* queue: the binding's register and nothing on the fast path, else the hint
\* when there is one, else the register at the front of the free queue.
MaterializedRegisterChoice ==
    Materialized =>
        IF FastPath
        THEN /\ ReturnedRegister =
                    get_var(last.pre.scopes, MaterializedExpr.name).val.register
             /\ EmittedCode = <<>>
             /\ scopes.unused_register = last.pre.scopes.unused_register
        ELSE /\ ReturnedRegister = Head(last.pre.scopes.unused_register)
             /\ IF Hinted
                THEN IsSuffixOf(scopes.unused_register, last.pre.scopes.unused_register)
                ELSE IsSuffixOf(scopes.unused_register,
                                Tail(last.pre.scopes.unused_register))

\* C16: maybe_compile_expr on a bare identifier bound in the current scope
\* returns the register of the binding, emits no instruction and takes no
\* register from the free queue, whatever the hint is; in every other case the
\* expression is lowered into the hint register when there is a hint and else
\* into one newly reserved register: the emitted code ends with the instruction
\* that writes the returned register.
MaterializedIntoReturnedRegister ==
    /\ MaterializedRegisterChoice
    /\ (Materialized /\ ~FastPath) =>
          /\ EmittedCode # <<>>
          /\ EmittedCode[Len(EmittedCode)].operands[1] = OperandRegister(ReturnedRegister)

(***************************************************************************)
(* Claims about function declarations (specification SpecCompile)          *)
(***************************************************************************)
\* The declaration of a named function has been entered: its name is bound,
\* its frame is pushed and its parameters are bound.
EnteredFunction ==
    /\ last.op = "compile_func"
    /\ last.arg.part = "Decl"
    /\ last.res.ok
    /\ last.arg.decl.func.id.some
TopFrame(self) == self.scopes[Len(self.scopes)]
FrameRegisters(frame) == {frame.decls[n].register : n \in DOMAIN frame.decls}
ParamName(param) == IF param.arg = "Expr" THEN param.expr.name ELSE param.pat.name
\* The names a function's frame binds itself: those the enclosing frame does not
\* bind, or binds to another register.
OwnNames(frame, enclosing) ==
    {n \in DOMAIN frame.decls :
        n \in DOMAIN enclosing.decls => frame.decls[n] # enclosing.decls[n]}

\* On entry the name is bound in the enclosing frame and resolves to that
\* register inside; the names bound before keep their registers; every
\* parameter has a register of its own that no enclosing binding holds.
FunctionEntry ==
    EnteredFunction =>
        LET func == last.arg.decl.func
            name == func.id.val
            enclosing == scopes.scopes[Len(scopes.scopes) - 1]
            before == TopFrame(last.pre.scopes)
            arg_regs == walk[Len(walk)].arguments
        IN  /\ name \in DOMAIN enclosing.decls
            /\ name \notin {ParamName(func.params[k]) : k \in 1..Len(func.params)} =>
                  get_var(scopes, name).val.register = enclosing.decls[name].register
            /\ \A n \in DOMAIN before.decls \ {name} :
                  n \in DOMAIN enclosing.decls /\ enclosing.decls[n] = before.decls[n]
            /\ Len(arg_regs) = Len(func.params)
            /\ \A k \in 1..Len(arg_regs) :
                  /\ get_var(scopes, ParamName(func.params[k])).val.register = arg_regs[k]
                  /\ arg_regs[k] \notin FrameRegisters(enclosing)
                  /\ \A j \in 1..Len(arg_regs) : j # k => arg_regs[j] # arg_regs[k]

\* A variable declared in a function's body is bound in the function's frame to
\* a register no binding holds, and the enclosing frame is left alone.
FunctionBodyVariable ==
    (LoweredOneDeclarator /\ Len(scopes.scopes) >= 2) =>
        LET name == DeclsOf(last.arg)[1].id.name
        IN  /\ get_var(scopes, name).val.register \notin BoundRegisters(last.pre.scopes)
            /\ scopes.scopes[Len(scopes.scopes) - 1] =
                  last.pre.scopes.scopes[Len(scopes.scopes) - 1]

\* Once the declaration has been lowered the enclosing frame is as it was, the
\* name of the function included, and the names the function bound itself and
\* the enclosing frame does not bind are unresolvable.
FunctionExit ==
    LoweredFunction =>
        LET enclosing == last.pre.scopes.scopes[Len(last.pre.scopes.scopes) - 1]
            name == last.pre.walk[Len(last.pre.walk)].func.id
        IN  /\ EnclosingFrame = enclosing
            /\ name.some => get_var(scopes, name.val).ok
            /\ \A n \in OwnNames(FunctionFrame, enclosing) \ DOMAIN enclosing.decls :
                  ~get_var(scopes, n).ok

LoweredBody == last.pre.walk[Len(last.pre.walk)].bytecode
StoredFunction == functions[Len(functions)]
ImplicitReturn == Command("ReturnBytecodeFunc", <<OperandRegistersArray(<<>>)>>)
EndsWithReturn(bytecode) ==
    bytecode # <<>> /\ bytecode[Len(bytecode)].instruction = "ReturnBytecodeFunc"

\* C18: every body in the function table ends with a ReturnBytecodeFunc; the
\* return with the empty register list is appended exactly when the lowered
\* body is empty or does not end with a return; the declaration lowers to the
\* empty sequence at its place.
StoredBodiesEndWithReturn ==
    /\ \A i \in 1..Len(functions) : EndsWithReturn(functions[i].bytecode)
    /\ LoweredFunction =>
          /\ Len(functions) = Len(last.pre.functions) + 1
          /\ StoredFunction.bytecode =
                IF EndsWithReturn(LoweredBody) THEN LoweredBody
                ELSE Append(LoweredBody, ImplicitReturn)
          /\ last.res.val = <<>>
          /\ walk[Len(walk)].bytecode = last.pre.walk[Len(walk)].bytecode

\* C18 witness: the body just lowered ends with its own return of one register
\* and is stored as it is.
StoredBodyKeepsItsReturn ==
    /\ LoweredFunction
    /\ EndsWithReturn(LoweredBody)
    /\ LoweredBody[Len(LoweredBody)] # ImplicitReturn
    /\ StoredFunction.bytecode = LoweredBody

(***************************************************************************)
(* Claims about the throwaway register (specification Spec)                *)
(***************************************************************************)
\* C19: get_throwaway_register returns the register at the front of the free
\* queue and changes nothing (free queue, scope stack and bindings are the
\* same after the call); it fails exactly on the empty queue; the add_decl or
\* reserve_register that follows issues that very register.
ThrowawayRegisterIsPeeked ==
    [][ /\ last'.op = "get_throwaway_register" =>
              /\ scopes' = scopes
              /\ last'.res.ok <=> scopes.unused_register # <<>>
              /\ last'.res.ok => last'.res.val = Head(scopes.unused_register)
        /\ ( /\ last.op = "get_throwaway_register"
             /\ last.res.ok
             /\ last'.op \in {"add_decl", "reserve_register"} ) =>
              /\ scopes'.unused_register = Tail(scopes.unused_register)
              /\ last'.res.ok => last'.res.val = last.res.val
              /\ (last'.op = "reserve_register" \/ scopes.scopes # <<>>) => last'.res.ok
      ]_vars

\* C19 witness: the throwaway register has been read while bindings exist and
\* the queue holds further registers behind it.
PeekedThrowawayRegister ==
    /\ last.op = "get_throwaway_register"
    /\ last.res.ok
    /\ scopes = last.pre
    /\ Len(scopes.unused_register) >= 2
    /\ Len(scopes.unused_register) < MaxReg
    /\ scopes.scopes # <<>>
    /\ DOMAIN TopFrame(scopes).decls # {}

(***************************************************************************)
(* Claims about blocks (specification SpecCompile)                         *)
(***************************************************************************)
\* A block has just been opened or closed.
OpenedBlock == last.op = "compile_stmt" /\ last.arg = BlockBegin
ClosedBlock == last.op = "compile_stmt" /\ last.arg = End /\ last.res.ok
OpenBlocks == {k \in 1..Len(walk) : walk[k].kind = "Block"}

\* C20: lowering a block introduces no scope: the depth of the scope stack is
\* the same before, during and after the block (one frame, and one per open
\* function, however many blocks are open), and what get_var resolves when the
\* block ends, the variables declared inside it included, resolves to the same
\* register after it.
BlockIntroducesNoScope ==
    /\ Walking => Len(scopes.scopes) = 1 + Cardinality(OpenFunctions)
    /\ (OpenedBlock \/ ClosedBlock) =>
          /\ Len(scopes.scopes) = Len(last.pre.scopes.scopes)
          /\ scopes = last.pre.scopes
          /\ \A n \in DOMAIN TopFrame(last.pre.scopes).decls :
                /\ get_var(scopes, n).ok
                /\ get_var(scopes, n).val.register =
                      get_var(last.pre.scopes, n).val.register

\* C20 witness: the block that has just been closed is the first part of the
\* program and declares x, which is resolvable after the block.
DeclaredInBlockResolvesAfter ==
    /\ ClosedBlock
    /\ Len(source) = 4
    /\ source[2] = BlockBegin
    /\ IsVarDecl(source[3])
    /\ DeclsOf(source[3])[1].id.name = "x"
    /\ OpenBlocks = {}
    /\ get_var(scopes, "x").ok
    /\ get_var(scopes, "x").val.register = 0

(***************************************************************************)
(* Claims about register exhaustion (specification Spec)                   *)
(***************************************************************************)
\* One of the three issuing operations has been called on the empty queue.
CalledOnEmptyQueue ==
    /\ last.op \in {"add_decl", "reserve_register", "get_throwaway_register"}
    /\ last.pre.unused_register = <<>>

\* C21: on the empty free queue add_decl, reserve_register and
\* get_throwaway_register return the register-exhaustion error, and the scope
\* stack, the bindings of every frame and the free queue are as before the
\* call (add_decl binds nothing).
ExhaustionFailsAndChangesNothing ==
    CalledOnEmptyQueue =>
        /\ ~last.res.ok
        /\ ~last.res.panic
        /\ last.res.err = ErrAllRegs
        /\ scopes = last.pre
        /\ last.op = "add_decl" =>
              \/ scopes.scopes = <<>>
              \/ last.arg \notin DOMAIN TopFrame(scopes).decls
              \/ last.arg \in DOMAIN TopFrame(last.pre).decls

\* C21 witness: add_decl has failed on the empty queue for a name the current
\* frame does not bind.
AddDeclFailedOnEmptyQueue ==
    /\ CalledOnEmptyQueue
    /\ last.op = "add_decl"
    /\ ~last.res.ok
    /\ scopes.scopes # <<>>
    /\ last.arg \notin DOMAIN TopFrame(scopes).decls

(***************************************************************************)
(* Claims about the operator selectors (specification SpecSelectors)       *)
(***************************************************************************)
\* The operators each selector maps to an instruction.
MappedAssignment == {"Equal", "PlusEqual", "MinusEqual", "TimesEqual", "DivEqual"}
MappedUnary == {"Minus", "Plus"}
MappedBinary ==
    {"Equal", "NotEqual", "StrictEqual", "StrictNotEqual", "LessThan", "GreaterThan",
     "LessThanEqual", "GreaterThanEqual", "Plus", "Minus", "Times", "Over"}
SelectedUnmapped ==
    \/ last.op = "assignment_op" /\ last.arg.operator \notin MappedAssignment
    \/ last.op = "unary_op" /\ last.arg.operator \notin MappedUnary
    \/ last.op = "binary_op" /\ last.arg.operator \notin MappedBinary
Aborted(res) == ~res.ok /\ res.panic
ReturnedError(res) == ~res.ok /\ ~res.panic

CommonRegisters == Range(isa.common_regs.regs)
Commands(bytecode) == Range(bytecode)
Emitted ==
    UNION ( {Commands(walk[k].bytecode) : k \in 1..Len(walk)}
            \cup {Commands(functions[i].bytecode) : i \in 1..Len(functions)}
            \cup {IF outcome.res.ok THEN Commands(outcome.res.val) ELSE {}}
            \cup {IF last.op = "compile_program_part" /\ last.res.ok
                  THEN Commands(last.res.val) ELSE {}} )
Destinations ==
    {c.operands[1].num : c \in {e \in Emitted : e.operands # <<>> /\ e.operands[1].type = "Register"}}

FunctionRejected ==
    /\ last.op = "compile_func"
    /\ last.arg.part = "Decl"
    /\ ~last.res.ok
FailedInFunctionBody ==
    /\ last.op = "compile_program_part"
    /\ ~last.res.ok
    /\ ~last.res.panic
    /\ \E k \in 1..Len(last.pre.walk) : last.pre.walk[k].kind = "Func"
\* The frame, the binding of the function's name left aside.
Without(frame, names) == [n \in DOMAIN frame.decls \ names |-> frame.decls[n]]
FunctionName(func) == IF func.id.some THEN {func.id.val} ELSE {}

\* On success the frame pushed for the function has been popped and the
\* enclosing frame is on top again.
BalancedOnSuccess ==
    LoweredFunction =>
        /\ Len(scopes.scopes) = Len(last.pre.scopes.scopes) - 1
        /\ TopFrame(scopes) = last.pre.scopes.scopes[Len(last.pre.scopes.scopes) - 1]

\* C24: whenever compile_func returns, with success or with an error (a
\* parameter that is no identifier, a rejected statement in the body), the scope
\* stack has the depth and the top frame it had before the call.
FunctionLoweringBalanced ==
    /\ BalancedOnSuccess
    /\ FunctionRejected =>
          /\ Len(scopes.scopes) = Len(last.pre.scopes.scopes)
          /\ Without(TopFrame(scopes), FunctionName(last.arg.decl.func)) =
                Without(TopFrame(last.pre.scopes), FunctionName(last.arg.decl.func))
    /\ FailedInFunctionBody => Len(scopes.scopes) = 1

====
